---- MODULE Spec2Model ----
(***************************************************************************)
(* User authentication service (0x03-user_authentication_service).        *)
(*                                                                         *)
(* The store (db.py) is one SQLAlchemy session over the `users` table.     *)
(* `rows` is what that session sees (its identity map, which every query   *)
(* autoflushes before reading); `committed` is what the last commit made   *)
(* durable.  The facade (auth.py) is modelled operation by operation, each *)
(* as an operator from the session's rows and the arguments to the         *)
(* outcome (exception, return value, rows afterwards, commit or not), and  *)
(* as an action applying that outcome.  A flush that fails (a NULL in a    *)
(* NOT NULL column, an id already in use), at a commit or before a query,  *)
(* leaves the session inactive: `rows` is then the value Inactive, and     *)
(* since no code calls rollback() it stays so.                             *)
(*                                                                         *)
(* The specifications share the state:                                     *)
(*   Spec      calls on Auth, one after the other;                         *)
(*   SpecDB    calls on DB itself (add_user, find_user_by, update_user);   *)
(*   SpecRace  register_user calls interleaved at their store steps;       *)
(*   SpecHttp  requests to the routes of app.py, one after the other.      *)
(*                                                                         *)
(* filter_datum (0x00-personal_data/filtered_logger.py) is a pure function *)
(* on strings; SpecFilter draws its arguments and applies it.  A string is *)
(* a sequence of one-character strings.  The characters used have no       *)
(* special meaning in a regular expression or in a replacement template,   *)
(* and none is a newline.                                                  *)
(*                                                                         *)
(* Values: emails, passwords, salts, uuids and user ids are integers >= 1; *)
(* Python's None / SQL NULL is 0.  A call that returns a User returns a    *)
(* row, or NoUser for None.  Every email, session id and token argument    *)
(* also takes None, which is what the routes pass for a missing form field *)
(* or cookie, and the routes pass None for a missing password field.       *)
(* bcrypt and uuid4 are library calls and are modelled as ideal: a salted  *)
(* hash that verifies exactly the password it was made from, and           *)
(* identifiers that never repeat.                                          *)
(***************************************************************************)
EXTENDS Integers, Sequences, FiniteSets, TLC

VARIABLES rows, committed, nextUuid, result, calls, response, datum

vars == <<rows, committed, nextUuid, result, calls, response, datum>>

(* ------------------------------ bounds -------------------------------- *)

\* uuid4 values the run may generate
MaxUuid == 2
\* key=value entries of a log message given to filter_datum
MaxEntries == 2
\* rows the store-level specification may insert
MaxRows == 2
\* concurrent register_user calls of the interleaved specification
NumProcs == 2

(* ------------------------------ values -------------------------------- *)

None == 0

\* None where a User is expected
NoUser == [id |-> None]

Emails == {1, 2}
Passwords == {1, 2}
Salts == {1, 2}

\* a string no uuid4 call returns
Garbage == MaxUuid + 1

NoExc == "none"

\* user.py: the mapped columns of User
Columns == {"id", "email", "hashed_password", "session_id", "reset_token"}

\* attributes a User object has that are no column, among them the table
\* name and the docstring of the class: hasattr is true for them and
\* setattr changes no column
OtherAttributes == {"__tablename__", "__doc__"}

\* what each of them is on the class User, where filter_by looks a key up:
\* the table name 'users' and the docstring, as the strings 1 and 2
AttributeValues == ("__tablename__" :> 1) @@ ("__doc__" :> 2)

\* the session after a flush that failed: its transaction is inactive,
\* nothing in the program calls rollback(), and every later query and
\* commit raises InvalidRequestError.  It stands where the rows stand.
Inactive == <<[inactive |-> TRUE]>>

(* --------------------------- auth.py helpers -------------------------- *)

\* hashes are numbers in base HashBase: the salt, then the digest
HashBase == Cardinality(Passwords) + 1

\* bcrypt.hashpw: the salt is embedded in the output and the digest differs
\* for different passwords under one salt
hashpw(password, salt) == salt * HashBase + password

\* bcrypt.checkpw: recompute with the embedded salt and compare
checkpw(password, hashed) == hashpw(password, hashed \div HashBase) = hashed

\* mutant of _hash_password: the password comes back as it was given
_hash_password_plain(password, salt) == password

\* _hash_password: hashpw under the salt gensalt() drew
_hash_password(password, salt) == hashpw(password, salt)

\* mutant of _generate_uuid: the same identifier on every call
_generate_uuid_fixed == MaxUuid

\* _generate_uuid: str(uuid.uuid4()), a value never returned before
_generate_uuid == nextUuid

(* ------------------------------- db.py -------------------------------- *)

\* filter_by(**kwargs): for a column, equality of the row's value with the
\* criterion (None is IS NULL); for another attribute of the class, the
\* comparison of the attribute's own value with the criterion, the same
\* constant for every row
Matching(rs, kwargs) ==
    {i \in 1..Len(rs) :
        \A k \in DOMAIN kwargs :
            IF k \in Columns THEN rs[i][k] = kwargs[k]
            ELSE AttributeValues[k] = kwargs[k]}

\* a flush of what the session holds fails: a NULL in a NOT NULL column or
\* in the primary key, or the id of one row given to another (user.py)
FlushFails(rs) ==
    \/ \E i \in 1..Len(rs) : \/ rs[i].id = None
                              \/ rs[i].email = None
                              \/ rs[i].hashed_password = None
    \/ \E i, j \in 1..Len(rs) : i # j /\ rs[i].id = rs[j].id

\* DB.find_user_by: filter_by(**kwargs).one(); the outcome carries the
\* session the call leaves behind
find_user_by(rs, kwargs) ==
    IF DOMAIN kwargs = {}
    THEN [exc |-> "InvalidRequestError", ret |-> NoUser, rows |-> rs]
    \* filter_by finds no attribute of that name on User
    ELSE IF ~(DOMAIN kwargs \subseteq Columns \cup OtherAttributes)
    THEN [exc |-> "InvalidRequestError", ret |-> NoUser, rows |-> rs]
    \* the query on an inactive session raises PendingRollbackError, an
    \* InvalidRequestError
    ELSE IF rs = Inactive
    THEN [exc |-> "InvalidRequestError", ret |-> NoUser, rows |-> rs]
    \* the query first flushes what an update_user that raised ValueError
    \* left on the session; no except clause catches the IntegrityError
    ELSE IF FlushFails(rs)
    THEN [exc |-> "IntegrityError", ret |-> NoUser, rows |-> Inactive]
    ELSE IF Matching(rs, kwargs) = {}
    THEN [exc |-> "NoResultFound", ret |-> NoUser, rows |-> rs]
    ELSE IF Cardinality(Matching(rs, kwargs)) > 1
    \* one() raises MultipleResultsFound, an InvalidRequestError
    THEN [exc |-> "InvalidRequestError", ret |-> NoUser, rows |-> rs]
    ELSE [exc |-> NoExc, ret |-> rs[CHOOSE i \in Matching(rs, kwargs) : TRUE],
          rows |-> rs]

\* the largest id among rs, 0 without rows
MaxId(rs) ==
    IF rs = <<>> THEN 0
    ELSE CHOOSE m \in {rs[i].id : i \in 1..Len(rs)} :
            \A i \in 1..Len(rs) : rs[i].id <= m

\* the row add_user builds: the id the table assigns, one more than the
\* largest in use, no session, no reset token
NewUser(rs, email, hashed_password) ==
    [id |-> MaxId(rs) + 1, email |-> email, hashed_password |-> hashed_password,
     session_id |-> None, reset_token |-> None]

\* mutant of session_add: a user whose email the session already holds is
\* not added
session_add_unique(rs, email, hashed_password) ==
    IF rs = Inactive THEN rs
    ELSE IF \E i \in 1..Len(rs) : rs[i].email = email THEN rs
    ELSE Append(rs, NewUser(rs, email, hashed_password))

\* user = User(...); self._session.add(user): the user is pending on the
\* session, no statement is sent and nothing is raised, whatever state the
\* session is in; the next flush inserts the pending users in this order
session_add(rs, email, hashed_password) ==
    IF rs = Inactive THEN rs
    ELSE Append(rs, NewUser(rs, email, hashed_password))

\* self._session.commit(): on an inactive session it raises
\* InvalidRequestError; otherwise it flushes what the session holds and
\* makes it durable, or the flush raises IntegrityError, nothing is stored
\* and the session is left inactive
session_commit(rs) ==
    IF rs = Inactive
    THEN [exc |-> "InvalidRequestError", rows |-> Inactive, commit |-> FALSE]
    ELSE IF FlushFails(rs)
    THEN [exc |-> "IntegrityError", rows |-> Inactive, commit |-> FALSE]
    ELSE [exc |-> NoExc, rows |-> rs, commit |-> TRUE]

\* DB.add_user: a new row with the next id, committed with whatever the
\* session holds.  email and hashed_password are NOT NULL (user.py): for
\* None the flush of the commit fails.
add_user(rs, email, hashed_password) ==
    LET c == session_commit(session_add(rs, email, hashed_password))
    IN  [exc |-> c.exc,
         ret |-> IF c.exc = NoExc THEN NewUser(rs, email, hashed_password)
                 ELSE NoUser,
         rows |-> c.rows, commit |-> c.commit]

\* setattr(user, key, value): a column takes the value, another attribute
\* of the object changes no column
SetAttr(user, key, value) ==
    IF key \in Columns THEN [user EXCEPT ![key] = value] ELSE user

\* the loop of DB.update_user over the first n items of kwargs
RECURSIVE SetAttrs(_, _, _)
SetAttrs(user, kwargs, n) ==
    IF n = 0 THEN user
    ELSE SetAttr(SetAttrs(user, kwargs, n - 1), kwargs[n][1], kwargs[n][2])

\* items of kwargs set before the loop of DB.update_user stops: all of them,
\* or those before the first key that is no attribute of User
AppliedCount(kwargs) ==
    LET bad == {j \in 1..Len(kwargs) :
                   kwargs[j][1] \notin Columns \cup OtherAttributes}
    IN  IF bad = {} THEN Len(kwargs)
        ELSE (CHOOSE j \in bad : \A k \in bad : j <= k) - 1

\* DB.update_user: kwargs is the sequence of <<key, value>> items in the
\* order of the call.  The ValueError leaves the attributes set so far on
\* the session; with every key accepted the call ends with the commit.
update_user(rs, user_id, kwargs) ==
    LET f == find_user_by(rs, [id |-> user_id])
    IN  IF f.exc # NoExc
        THEN [exc |-> f.exc, rows |-> f.rows, commit |-> FALSE]
        ELSE LET n == AppliedCount(kwargs)
                 i == CHOOSE i \in Matching(rs, [id |-> user_id]) : TRUE
                 after == [rs EXCEPT ![i] = SetAttrs(f.ret, kwargs, n)]
             IN  IF n < Len(kwargs)
                 THEN [exc |-> "ValueError", rows |-> after, commit |-> FALSE]
                 ELSE session_commit(after)

(* ------------------------------ auth.py ------------------------------- *)

\* Auth.register_user
register_user(rs, email, password, salt) ==
    LET f == find_user_by(rs, [email |-> email])
    IN  IF f.exc = NoExc
        THEN [exc |-> "ValueError", ret |-> NoUser, rows |-> rs, commit |-> FALSE]
        ELSE IF f.exc = "NoResultFound"
        THEN IF password = None
             \* _hash_password: None has no encode()
             THEN [exc |-> "AttributeError", ret |-> NoUser,
                   rows |-> rs, commit |-> FALSE]
             \* an IntegrityError of add_user is not caught
             ELSE add_user(rs, email, _hash_password(password, salt))
        ELSE [exc |-> f.exc, ret |-> NoUser, rows |-> f.rows, commit |-> FALSE]

\* Auth.valid_login
valid_login(rs, email, password) ==
    LET f == find_user_by(rs, [email |-> email])
    IN  IF f.exc = NoExc
        THEN IF password = None
             \* password.encode('utf-8') on None
             THEN [exc |-> "AttributeError", ret |-> FALSE, rows |-> rs]
             ELSE [exc |-> NoExc,
                   ret |-> checkpw(password, f.ret.hashed_password),
                   rows |-> rs]
        ELSE IF f.exc = "NoResultFound"
        THEN [exc |-> NoExc, ret |-> FALSE, rows |-> rs]
        ELSE [exc |-> f.exc, ret |-> FALSE, rows |-> f.rows]

\* mutant of create_session: the new id is returned but never stored
create_session_unsaved(rs, email, uuid) ==
    LET f == find_user_by(rs, [email |-> email])
    IN  IF f.exc = NoExc
        THEN [exc |-> NoExc, ret |-> uuid, rows |-> rs, commit |-> FALSE]
        ELSE IF f.exc = "NoResultFound"
        THEN [exc |-> NoExc, ret |-> None, rows |-> rs, commit |-> FALSE]
        ELSE [exc |-> f.exc, ret |-> None, rows |-> f.rows, commit |-> FALSE]

\* Auth.create_session
create_session(rs, email, uuid) ==
    LET f == find_user_by(rs, [email |-> email])
    IN  IF f.exc = NoExc
        THEN LET u == update_user(rs, f.ret.id, <<<<"session_id", uuid>>>>)
             IN  IF u.exc = NoExc
                 THEN [exc |-> NoExc, ret |-> uuid,
                       rows |-> u.rows, commit |-> u.commit]
                 ELSE IF u.exc = "NoResultFound"
                 THEN [exc |-> NoExc, ret |-> None,
                       rows |-> u.rows, commit |-> u.commit]
                 ELSE [exc |-> u.exc, ret |-> None,
                       rows |-> u.rows, commit |-> u.commit]
        ELSE IF f.exc = "NoResultFound"
        THEN [exc |-> NoExc, ret |-> None, rows |-> rs, commit |-> FALSE]
        ELSE [exc |-> f.exc, ret |-> None, rows |-> f.rows, commit |-> FALSE]

\* Auth.get_user_from_session_id
get_user_from_session_id(rs, session_id) ==
    IF session_id = None
    THEN [exc |-> NoExc, ret |-> NoUser, lookup |-> FALSE, rows |-> rs]
    ELSE LET f == find_user_by(rs, [session_id |-> session_id])
         IN  IF f.exc = NoExc
             THEN [exc |-> NoExc, ret |-> f.ret, lookup |-> TRUE, rows |-> rs]
             ELSE IF f.exc = "NoResultFound"
             THEN [exc |-> NoExc, ret |-> NoUser, lookup |-> TRUE, rows |-> rs]
             ELSE [exc |-> f.exc, ret |-> NoUser, lookup |-> TRUE,
                   rows |-> f.rows]

\* Auth.destroy_session
destroy_session(rs, user_id) ==
    LET u == update_user(rs, user_id, <<<<"session_id", None>>>>)
    IN  [exc |-> u.exc, ret |-> None, rows |-> u.rows, commit |-> u.commit]

\* Auth.get_reset_password_token
get_reset_password_token(rs, email, uuid) ==
    LET f == find_user_by(rs, [email |-> email])
    IN  IF f.exc = NoExc
        THEN LET u == update_user(rs, f.ret.id, <<<<"reset_token", uuid>>>>)
             IN  IF u.exc = NoExc
                 THEN [exc |-> NoExc, ret |-> uuid,
                       rows |-> u.rows, commit |-> u.commit]
                 ELSE IF u.exc = "NoResultFound"
                 THEN [exc |-> "ValueError", ret |-> None,
                       rows |-> u.rows, commit |-> u.commit]
                 ELSE [exc |-> u.exc, ret |-> None,
                       rows |-> u.rows, commit |-> u.commit]
        ELSE IF f.exc = "NoResultFound"
        THEN [exc |-> "ValueError", ret |-> None, rows |-> rs, commit |-> FALSE]
        ELSE [exc |-> f.exc, ret |-> None, rows |-> f.rows, commit |-> FALSE]

\* mutant of update_password: the reset also ends the user's session
update_password_ends_session(rs, reset_token, password, salt) ==
    LET f == find_user_by(rs, [reset_token |-> reset_token])
    IN  IF f.exc = NoExc /\ password = None
        THEN [exc |-> "AttributeError", ret |-> None, rows |-> rs, commit |-> FALSE]
        ELSE IF f.exc = NoExc
        THEN LET u == update_user(rs, f.ret.id,
                        <<<<"hashed_password", _hash_password(password, salt)>>,
                          <<"reset_token", None>>, <<"session_id", None>>>>)
             IN  [exc |-> u.exc, ret |-> None,
                  rows |-> u.rows, commit |-> u.commit]
        ELSE IF f.exc = "NoResultFound"
        THEN [exc |-> "ValueError", ret |-> None, rows |-> rs, commit |-> FALSE]
        ELSE [exc |-> f.exc, ret |-> None, rows |-> f.rows, commit |-> FALSE]

\* Auth.update_password
update_password(rs, reset_token, password, salt) ==
    LET f == find_user_by(rs, [reset_token |-> reset_token])
    IN  IF f.exc = NoExc /\ password = None
        \* _hash_password: None has no encode()
        THEN [exc |-> "AttributeError", ret |-> None, rows |-> rs, commit |-> FALSE]
        ELSE IF f.exc = NoExc
        THEN LET u == update_user(rs, f.ret.id,
                        <<<<"hashed_password", _hash_password(password, salt)>>,
                          <<"reset_token", None>>>>)
             IN  IF u.exc = "NoResultFound"
                 THEN [exc |-> "ValueError", ret |-> None,
                       rows |-> u.rows, commit |-> u.commit]
                 ELSE [exc |-> u.exc, ret |-> None,
                       rows |-> u.rows, commit |-> u.commit]
        ELSE IF f.exc = "NoResultFound"
        THEN [exc |-> "ValueError", ret |-> None, rows |-> rs, commit |-> FALSE]
        ELSE [exc |-> f.exc, ret |-> None, rows |-> f.rows, commit |-> FALSE]

(* ------------------------------ state --------------------------------- *)

\* what a client may send as an email: a string, or nothing
EmailInputs == Emails \cup {None}

\* what a client may send as a session id or reset token: nothing, a value
\* the service issued earlier, or a string of its own
UuidInputs == {None, Garbage} \cup (1..(nextUuid - 1))

\* user ids a caller may pass: those of the rows and one beyond
UserIdInputs == 1..(MaxId(committed) + 1)

\* the last call: its name and arguments, the exception it raised, what it
\* returned (ret a string or None, ret_bool, ret_user by the return type),
\* and in `was` the value of the column it went on to overwrite
Result(op, a1, a2, exc, ret, ret_bool, ret_user, was) ==
    [op |-> op, a1 |-> a1, a2 |-> a2, exc |-> exc, ret |-> ret,
     ret_bool |-> ret_bool, ret_user |-> ret_user, was |-> was]

IdleCall == [pc |-> "idle", email |-> None, password |-> None, exc |-> NoExc]

\* the last HTTP exchange: the route, what the request carried (a1, a2, a3),
\* the status answered, the session_id cookie the response sets and the
\* email and reset_token of its JSON body, None where there is none
Response(route, a1, a2, a3, status, cookie, email, reset_token) ==
    [route |-> route, a1 |-> a1, a2 |-> a2, a3 |-> a3, status |-> status,
     cookie |-> cookie, email |-> email, reset_token |-> reset_token]

\* no call of filter_datum yet
NoDatum == [entries |-> <<>>, fields |-> <<>>, redaction |-> <<>>,
            message |-> <<>>, separator |-> <<>>, called |-> FALSE,
            out |-> <<>>]

\* DB.__init__ drops and recreates the table; nothing has been called yet
Init ==
    /\ rows = <<>>
    /\ committed = <<>>
    /\ nextUuid = 1
    /\ result = Result("init", None, None, NoExc, None, FALSE, NoUser, None)
    /\ calls = [p \in 1..NumProcs |-> IdleCall]
    /\ response = Response("none", None, None, None, None, None, None, None)
    /\ datum = NoDatum

\* the value of column key in the row the criteria select, None without one
Stored(rs, kwargs, key) ==
    IF find_user_by(rs, kwargs).exc = NoExc
    THEN find_user_by(rs, kwargs).ret[key] ELSE None

\* the effect of an outcome r on the session and on the durable table
Apply(r) ==
    /\ rows' = r.rows
    /\ committed' = IF r.commit THEN r.rows ELSE committed

(* --------------------------- facade actions --------------------------- *)

RegisterUser(email, password, salt) ==
    LET r == register_user(rows, email, password, salt)
    IN  /\ Apply(r)
        /\ result' = Result("register_user", email, password, r.exc,
                            None, FALSE, r.ret, None)
        /\ UNCHANGED <<nextUuid, calls, response, datum>>

ValidLogin(email, password) ==
    LET r == valid_login(rows, email, password)
    IN  /\ rows' = r.rows
        /\ result' = Result("valid_login", email, password, r.exc,
                            None, r.ret, NoUser, None)
        /\ UNCHANGED <<committed, nextUuid, calls, response, datum>>

CreateSession(email) ==
    LET r == create_session(rows, email, _generate_uuid)
    IN  /\ nextUuid <= MaxUuid
        /\ Apply(r)
        /\ nextUuid' = IF find_user_by(rows, [email |-> email]).exc = NoExc
                       THEN nextUuid + 1 ELSE nextUuid
        /\ result' = Result("create_session", email, None, r.exc,
                            r.ret, FALSE, NoUser,
                            Stored(rows, [email |-> email], "session_id"))
        /\ UNCHANGED <<calls, response, datum>>

GetUserFromSessionId(session_id) ==
    LET r == get_user_from_session_id(rows, session_id)
    IN  /\ rows' = r.rows
        /\ result' = Result("get_user_from_session_id", session_id, None,
                            r.exc, None, FALSE, r.ret, None)
        /\ UNCHANGED <<committed, nextUuid, calls, response, datum>>

DestroySession(user_id) ==
    LET r == destroy_session(rows, user_id)
    IN  /\ Apply(r)
        /\ result' = Result("destroy_session", user_id, None, r.exc,
                            None, FALSE, NoUser,
                            Stored(rows, [id |-> user_id], "session_id"))
        /\ UNCHANGED <<nextUuid, calls, response, datum>>

GetResetPasswordToken(email) ==
    LET r == get_reset_password_token(rows, email, _generate_uuid)
    IN  /\ nextUuid <= MaxUuid
        /\ Apply(r)
        /\ nextUuid' = IF find_user_by(rows, [email |-> email]).exc = NoExc
                       THEN nextUuid + 1 ELSE nextUuid
        /\ result' = Result("get_reset_password_token", email, None, r.exc,
                            r.ret, FALSE, NoUser,
                            Stored(rows, [email |-> email], "reset_token"))
        /\ UNCHANGED <<calls, response, datum>>

UpdatePassword(reset_token, password, salt) ==
    LET r == update_password(rows, reset_token, password, salt)
    IN  /\ Apply(r)
        /\ result' = Result("update_password", reset_token, password, r.exc,
                            None, FALSE, NoUser,
                            Stored(rows, [reset_token |-> reset_token],
                                   "hashed_password"))
        /\ UNCHANGED <<nextUuid, calls, response, datum>>

Next ==
    \/ \E e \in EmailInputs, p \in Passwords, s \in Salts :
          RegisterUser(e, p, s)
    \/ \E e \in EmailInputs, p \in Passwords : ValidLogin(e, p)
    \/ \E e \in EmailInputs : CreateSession(e)
    \/ \E sid \in UuidInputs : GetUserFromSessionId(sid)
    \/ \E uid \in UserIdInputs : DestroySession(uid)
    \/ \E e \in EmailInputs : GetResetPasswordToken(e)
    \/ \E t \in UuidInputs, p \in Passwords, s \in Salts : UpdatePassword(t, p, s)

Spec == Init /\ [][Next]_vars

(* ------------------------ store-level actions ------------------------- *)

\* the criteria the store-level specification passes to find_user_by
Criteria ==
    << <<>>,
       [email |-> 1],
       [email |-> 2],
       [id |-> 2],
       [session_id |-> None],
       [session_id |-> 1],
       [email |-> 1, session_id |-> 1],
       [nickname |-> 1],
       [email |-> 1, nickname |-> 1],
       ("__tablename__" :> 1),
       ("__tablename__" :> 2),
       [email |-> 1] @@ ("__doc__" :> 2) >>

\* the keyword arguments, in call order, it passes to update_user
UpdateKwargs ==
    << <<>>,
       << <<"session_id", 1>> >>,
       << <<"session_id", None>>, <<"reset_token", 1>> >>,
       << <<"session_id", 2>>, <<"nickname", 1>> >>,
       << <<"nickname", 1>>, <<"session_id", 2>> >>,
       << <<"session_id", 2>>, <<"__tablename__", 1>> >>,
       << <<"email", None>> >>,
       << <<"session_id", 1>>, <<"hashed_password", None>> >>,
       << <<"id", 2>> >>,
       << <<"email", None>>, <<"nickname", 1>> >> >>

\* DB.add_user, whose commit also flushes whatever the session holds
DbAddUser(email, hashed_password) ==
    LET r == add_user(rows, email, hashed_password)
    IN  /\ Len(rows) < MaxRows
        /\ Apply(r)
        /\ result' = Result("add_user", email, hashed_password, r.exc,
                            None, FALSE, r.ret, None)
        /\ UNCHANGED <<nextUuid, calls, response, datum>>

\* DB.find_user_by(**Criteria[k])
DbFindUserBy(k) ==
    LET f == find_user_by(rows, Criteria[k])
    IN  /\ rows' = f.rows
        /\ result' = Result("find_user_by", k, None, f.exc,
                            None, FALSE, f.ret, None)
        /\ UNCHANGED <<committed, nextUuid, calls, response, datum>>

\* DB.update_user(user_id, **UpdateKwargs[k])
DbUpdateUser(user_id, k) ==
    LET u == update_user(rows, user_id, UpdateKwargs[k])
    IN  /\ Apply(u)
        /\ result' = Result("update_user", user_id, k, u.exc,
                            None, FALSE, NoUser, None)
        /\ UNCHANGED <<nextUuid, calls, response, datum>>

NextDB ==
    \/ \E e \in EmailInputs, h \in {None, hashpw(1, 1)} : DbAddUser(e, h)
    \/ \E k \in 1..Len(Criteria) : DbFindUserBy(k)
    \/ \E uid \in UserIdInputs, k \in 1..Len(UpdateKwargs) : DbUpdateUser(uid, k)

SpecDB == Init /\ [][NextDB]_vars

(* ------------------- interleaved register_user calls ------------------ *)

\* register_user up to the outcome of its find_user_by
RegisterFind(p, email, password) ==
    LET f == find_user_by(rows, [email |-> email])
    IN  /\ calls[p].pc = "idle"
        /\ rows' = f.rows
        /\ calls' = [calls EXCEPT ![p] =
              [pc |-> IF f.exc = "NoResultFound" THEN "found_none" ELSE "returned",
               email |-> email, password |-> password,
               exc |-> IF f.exc = NoExc THEN "ValueError"
                       ELSE IF f.exc = "NoResultFound" THEN NoExc
                       ELSE f.exc]]
        /\ UNCHANGED <<committed, nextUuid, result, response, datum>>

\* register_user from its except clause up to session.add in add_user:
\* the hash and the pending user
RegisterAdd(p, salt) ==
    /\ calls[p].pc = "found_none"
    /\ rows' = session_add(rows, calls[p].email,
                            _hash_password(calls[p].password, salt))
    /\ calls' = [calls EXCEPT ![p].pc = "added"]
    /\ UNCHANGED <<committed, nextUuid, result, response, datum>>

\* the session.commit of add_user, and the return or the exception of
\* register_user
RegisterCommit(p) ==
    LET c == session_commit(rows)
    IN  /\ calls[p].pc = "added"
        /\ Apply(c)
        /\ calls' = [calls EXCEPT ![p].pc = "returned", ![p].exc = c.exc]
        /\ UNCHANGED <<nextUuid, result, response, datum>>

NextRace ==
    \/ \E p \in 1..NumProcs, e \in EmailInputs, pw \in Passwords :
          RegisterFind(p, e, pw)
    \/ \E p \in 1..NumProcs, s \in Salts : RegisterAdd(p, s)
    \/ \E p \in 1..NumProcs : RegisterCommit(p)

SpecRace == Init /\ [][NextRace]_vars

(* ------------------------------- app.py ------------------------------- *)

\* what a route answers and does to the store; an exception no handler
\* catches is answered by Flask with status 500
Answer(status, cookie, email, reset_token, rs, commit) ==
    [status |-> status, cookie |-> cookie, email |-> email,
     reset_token |-> reset_token, rows |-> rs, commit |-> commit]

\* POST /users
users(rs, email, password, salt) ==
    LET r == register_user(rs, email, password, salt)
    IN  IF r.exc = NoExc
        THEN Answer(200, None, email, None, r.rows, r.commit)
        ELSE IF r.exc = "ValueError"
        THEN Answer(400, None, None, None, r.rows, r.commit)
        ELSE Answer(500, None, None, None, r.rows, r.commit)

\* POST /sessions
login(rs, email, password, uuid) ==
    LET v == valid_login(rs, email, password)
        c == create_session(v.rows, email, uuid)
    IN  IF v.exc # NoExc
        THEN Answer(500, None, None, None, v.rows, FALSE)
        ELSE IF ~v.ret
        THEN Answer(401, None, None, None, v.rows, FALSE)
        ELSE IF c.exc # NoExc \/ c.ret = None
        \* create_session raised, or set_cookie was given None
        THEN Answer(500, None, None, None, c.rows, c.commit)
        ELSE Answer(200, c.ret, email, None, c.rows, c.commit)

\* DELETE /sessions
logout(rs, session_id) ==
    LET g == get_user_from_session_id(rs, session_id)
    IN  IF g.exc # NoExc
        THEN Answer(500, None, None, None, g.rows, FALSE)
        ELSE IF g.ret = NoUser
        THEN Answer(403, None, None, None, g.rows, FALSE)
        ELSE LET d == destroy_session(g.rows, g.ret.id)
             IN  IF d.exc # NoExc
                 THEN Answer(500, None, None, None, d.rows, d.commit)
                 \* redirect('/')
                 ELSE Answer(302, None, None, None, d.rows, d.commit)

\* GET /profile
profile(rs, session_id) ==
    LET g == get_user_from_session_id(rs, session_id)
    IN  IF g.exc # NoExc
        THEN Answer(500, None, None, None, g.rows, FALSE)
        ELSE IF g.ret = NoUser
        THEN Answer(403, None, None, None, g.rows, FALSE)
        ELSE Answer(200, None, g.ret.email, None, g.rows, FALSE)

\* POST /reset_password
get_reset_token(rs, email, uuid) ==
    LET r == get_reset_password_token(rs, email, uuid)
    IN  IF r.exc = NoExc
        THEN Answer(200, None, email, r.ret, r.rows, r.commit)
        ELSE IF r.exc = "ValueError"
        THEN Answer(403, None, None, None, r.rows, r.commit)
        ELSE Answer(500, None, None, None, r.rows, r.commit)

\* PUT /reset_password (app.update_password)
put_reset_password(rs, email, reset_token, new_password, salt) ==
    LET r == update_password(rs, reset_token, new_password, salt)
    IN  IF r.exc = NoExc
        THEN Answer(200, None, email, None, r.rows, r.commit)
        ELSE IF r.exc = "ValueError"
        THEN Answer(403, None, None, None, r.rows, r.commit)
        ELSE Answer(500, None, None, None, r.rows, r.commit)

\* the password a form may carry: a string, or None for a missing field
PasswordInputs == Passwords \cup {None}

\* the salts gensalt() draws while requests are served; no route looks at
\* the salt, and one value keeps the reachable states few
HttpSalts == {1}

\* the effect of an answer on the store and on the response the client sees
Respond(route, a1, a2, a3, r) ==
    /\ Apply(r)
    /\ response' = Response(route, a1, a2, a3, r.status, r.cookie,
                            r.email, r.reset_token)

PostUsers(email, password, salt) ==
    /\ Respond("POST /users", email, password, None,
               users(rows, email, password, salt))
    /\ UNCHANGED <<nextUuid, result, calls, datum>>

PostSessions(email, password) ==
    LET r == login(rows, email, password, _generate_uuid)
    IN  /\ nextUuid <= MaxUuid
        /\ Respond("POST /sessions", email, password, None, r)
        /\ nextUuid' = IF r.status = 200 THEN nextUuid + 1 ELSE nextUuid
        /\ UNCHANGED <<result, calls, datum>>

DeleteSessions(session_id) ==
    /\ Respond("DELETE /sessions", session_id, None, None,
               logout(rows, session_id))
    /\ UNCHANGED <<nextUuid, result, calls, datum>>

GetProfile(session_id) ==
    /\ Respond("GET /profile", session_id, None, None,
               profile(rows, session_id))
    /\ UNCHANGED <<nextUuid, result, calls, datum>>

PostResetPassword(email) ==
    LET r == get_reset_token(rows, email, _generate_uuid)
    IN  /\ nextUuid <= MaxUuid
        /\ Respond("POST /reset_password", email, None, None, r)
        /\ nextUuid' = IF r.status = 200 THEN nextUuid + 1 ELSE nextUuid
        /\ UNCHANGED <<result, calls, datum>>

PutResetPassword(email, reset_token, new_password, salt) ==
    /\ Respond("PUT /reset_password", email, reset_token, new_password,
               put_reset_password(rows, email, reset_token, new_password, salt))
    /\ UNCHANGED <<nextUuid, result, calls, datum>>

NextHttp ==
    \/ \E e \in EmailInputs, p \in PasswordInputs, s \in HttpSalts :
          PostUsers(e, p, s)
    \/ \E e \in EmailInputs, p \in PasswordInputs : PostSessions(e, p)
    \/ \E c \in UuidInputs : DeleteSessions(c)
    \/ \E c \in UuidInputs : GetProfile(c)
    \/ \E e \in EmailInputs : PostResetPassword(e)
    \/ \E e \in EmailInputs, t \in UuidInputs, p \in PasswordInputs,
          s \in HttpSalts : PutResetPassword(e, t, p, s)

SpecHttp == Init /\ [][NextHttp]_vars

(* ------------------------- filtered_logger.py ------------------------- *)

\* pat occurs in s at position i
IsAt(pat, s, i) ==
    /\ i + Len(pat) - 1 <= Len(s)
    /\ \A k \in 1..Len(pat) : s[i + k - 1] = pat[k]

\* the regular expression f"{field}=.*?{separator}" tried at position i of
\* message: the position after the match, 0 without a match.  The lazy .*?
\* stops at the first separator after the "=".
MatchEnd(field, separator, message, i) ==
    LET head == field \o <<"=">>
        stops == {j \in (i + Len(head))..(Len(message) + 1) :
                     IsAt(separator, message, j)}
    IN  IF IsAt(head, message, i) /\ stops # {}
        THEN (CHOOSE j \in stops : \A k \in stops : j <= k) + Len(separator)
        ELSE 0

\* re.sub of that expression by f"{field}={redaction}{separator}" from
\* position i on: the leftmost matches, not overlapping, are replaced and
\* the other characters copied
RECURSIVE sub(_, _, _, _, _)
sub(field, redaction, separator, message, i) ==
    IF i > Len(message) THEN <<>>
    ELSE IF MatchEnd(field, separator, message, i) # 0
    THEN field \o <<"=">> \o redaction \o separator
         \o sub(field, redaction, separator, message,
                MatchEnd(field, separator, message, i))
    ELSE <<message[i]>> \o sub(field, redaction, separator, message, i + 1)

\* the loop of filter_datum over the first n fields
RECURSIVE filter_fields(_, _, _, _, _)
filter_fields(fields, redaction, message, separator, n) ==
    IF n = 0 THEN message
    ELSE sub(fields[n], redaction, separator,
             filter_fields(fields, redaction, message, separator, n - 1), 1)

\* filter_datum
filter_datum(fields, redaction, message, separator) ==
    filter_fields(fields, redaction, message, separator, Len(fields))

\* keys and values of log entries, field lists, redactions and separators
Keys == {<<"a">>, <<"b">>, <<"b", "a">>}
Values == {<<>>, <<"x">>}
FieldLists == {<<>>, << <<"a">> >>, << <<"b">> >>,
               << <<"a">>, <<"b">> >>, << <<"b">>, <<"a">> >>}
Redactions == {<<"*">>, <<"b", "=">>}
Separators == {<<";">>, <<",">>}

\* the messages: up to MaxEntries entries <<key, value>>
EntryLists ==
    UNION {[1..n -> Keys \X Values] : n \in 0..MaxEntries}

\* the message "key=value<separator>..." of the first n entries
RECURSIVE Join(_, _, _)
Join(entries, separator, n) ==
    IF n = 0 THEN <<>>
    ELSE Join(entries, separator, n - 1)
         \o entries[n][1] \o <<"=">> \o entries[n][2] \o separator

InitFilter ==
    /\ rows = <<>>
    /\ committed = <<>>
    /\ nextUuid = 1
    /\ result = Result("init", None, None, NoExc, None, FALSE, NoUser, None)
    /\ calls = [p \in 1..NumProcs |-> IdleCall]
    /\ response = Response("none", None, None, None, None, None, None, None)
    /\ \E es \in EntryLists, fs \in FieldLists, r \in Redactions,
          sep \in Separators :
          datum = [entries |-> es, fields |-> fs, redaction |-> r,
                   message |-> Join(es, sep, Len(es)), separator |-> sep,
                   called |-> FALSE, out |-> <<>>]

FilterDatum ==
    /\ ~datum.called
    /\ datum' = [datum EXCEPT
                   !.called = TRUE,
                   !.out = filter_datum(datum.fields, datum.redaction,
                                        datum.message, datum.separator)]
    /\ UNCHANGED <<rows, committed, nextUuid, result, calls, response>>

NextFilter == FilterDatum

SpecFilter == InitFilter /\ [][NextFilter]_vars

(* ------------------- claims on the sequential facade ------------------ *)

\* the users the store holds: the rows of the session, or the durable table
\* when the session is inactive
Table == IF rows = Inactive THEN committed ELSE rows


\* the rows whose email is e
WithEmail(rs, e) == {i \in 1..Len(rs) : rs[i].email = e}

\* C1: update_password with a reset_token that is no user's outstanding
\* reset token, None included, raises ValueError and changes no row.
C1_UpdatePasswordRejectsUnknownToken ==
    [][(/\ result'.op = "update_password"
        /\ \/ result'.a1 = None
           \/ \A i \in 1..Len(Table) : Table[i].reset_token # result'.a1)
       => (/\ result'.exc = "ValueError"
           /\ rows' = rows
           /\ committed' = committed)]_vars

\* C2: for a registered user get_reset_password_token succeeds and
\* update_password with the token it returned succeeds; after that update the
\* new password logs in, every other password does not, and update_password
\* with the same token raises ValueError and changes nothing.
C2_ResetThenUpdate ==
    /\ [](result.op = "get_reset_password_token" /\ WithEmail(Table, result.a1) # {}
            => /\ result.exc = NoExc
               /\ result.ret # None
               /\ \A p \in Passwords, s \in Salts :
                      update_password(rows, result.ret, p, s).exc = NoExc)
    /\ [][(/\ result'.op = "update_password"
           /\ result'.a1 # None
           /\ result'.exc = NoExc)
          => LET owner == find_user_by(rows, [reset_token |-> result'.a1]).ret
             IN  /\ valid_login(rows', owner.email, result'.a2)
                        = [exc |-> NoExc, ret |-> TRUE, rows |-> rows']
                 /\ \A old \in Passwords \ {result'.a2} :
                        valid_login(rows', owner.email, old)
                            = [exc |-> NoExc, ret |-> FALSE, rows |-> rows']
                 /\ \A p \in Passwords, s \in Salts :
                        LET again == update_password(rows', result'.a1, p, s)
                        IN  /\ again.exc = "ValueError"
                            /\ again.rows = rows'
                            /\ ~again.commit]_vars

\* C3: register_user with an email already in the store raises ValueError and
\* inserts nothing, with a new email it inserts one row; no two rows share an
\* email.
C3_RegisterUnique ==
    /\ [](\A e \in Emails : Cardinality(WithEmail(Table, e)) <= 1)
    /\ [][(result'.op = "register_user" /\ result'.a1 \in Emails)
          => IF WithEmail(Table, result'.a1) # {}
             THEN /\ result'.exc = "ValueError"
                  /\ rows' = rows
                  /\ committed' = committed
             ELSE /\ result'.exc = NoExc
                  /\ Len(Table') = Len(Table) + 1
                  /\ Cardinality(WithEmail(Table', result'.a1)) = 1]_vars

\* C4: when create_session returns a session id, the new id resolves to the
\* user of that email, the id that user had before resolves to no user, and
\* no other id resolves to that user.
C4_OneSessionPerUser ==
    [][(result'.op = "create_session" /\ result'.exc = NoExc
                                      /\ result'.ret # None)
       => LET before == find_user_by(rows, [email |-> result'.a1]).ret
          IN  /\ before # NoUser
              /\ get_user_from_session_id(rows', result'.ret).ret.id = before.id
              /\ before.session_id # None
                   => get_user_from_session_id(rows', before.session_id).ret = NoUser
              /\ \A sid \in 1..Garbage :
                     get_user_from_session_id(rows', sid).ret.id = before.id
                        => sid = result'.ret]_vars

\* C4 witness: a second create_session replaced a session id that was live
C4_Witness ==
    /\ result.op = "create_session"
    /\ result.was # None
    /\ result.ret # None
    /\ get_user_from_session_id(rows, result.was).ret = NoUser
    /\ get_user_from_session_id(rows, result.ret).ret # NoUser

\* C7: every facade operation ends in a return or a ValueError, never in the
\* store's NoResultFound or InvalidRequestError.
C7_NoRawStorageException ==
    result.op \in {"register_user", "valid_login", "create_session",
                   "get_user_from_session_id", "destroy_session",
                   "get_reset_password_token", "update_password"}
        => result.exc \in {NoExc, "ValueError"}

\* C9: valid_login returns True exactly when a row has the email and the
\* password verifies against its hashed_password, False otherwise, raises
\* nothing and changes no row.
C9_ValidLogin ==
    [][result'.op = "valid_login"
       => /\ result'.exc = NoExc
          /\ result'.ret_bool = (\E i \in 1..Len(Table) :
                                /\ Table[i].email = result'.a1
                                /\ checkpw(result'.a2, Table[i].hashed_password))
          /\ rows' = rows
          /\ committed' = committed]_vars

\* C10: create_session for an email no row has returns None and changes no
\* row.
C10_CreateSessionUnknownEmail ==
    [][(result'.op = "create_session" /\ WithEmail(Table, result'.a1) = {})
       => /\ result'.exc = NoExc
          /\ result'.ret = None
          /\ rows' = rows
          /\ committed' = committed]_vars

(* -------------------------- claims on the store ----------------------- *)

\* the position in rs of the row with that id, 0 without one
RowOf(rs, user_id) ==
    IF \E p \in 1..Len(rs) : rs[p].id = user_id
    THEN CHOOSE p \in 1..Len(rs) : rs[p].id = user_id
    ELSE 0

\* C5: update_user on a user of the store is all-or-nothing: with a key that
\* is no attribute of User it raises ValueError and applies none of the
\* fields, to the session or to the table; with valid keys it returns
\* normally, and the row then has every given value and is committed.
C5_UpdateUserAllOrNothing ==
    [][(result'.op = "update_user" /\ RowOf(Table, result'.a1) # 0)
       => LET kwargs == UpdateKwargs[result'.a2]
              p == RowOf(Table, result'.a1)
          IN  IF \E j \in 1..Len(kwargs) :
                    kwargs[j][1] \notin Columns \cup OtherAttributes
              THEN /\ result'.exc = "ValueError"
                   /\ rows' = rows
                   /\ committed' = committed
              ELSE /\ result'.exc = NoExc
                   /\ \A j \in 1..Len(kwargs) :
                         kwargs[j][1] \in Columns
                            => Table'[p][kwargs[j][1]] = kwargs[j][2]
                   /\ committed' = rows']_vars

\* the rows of rs the query of find_user_by selects for the criteria; none
\* when the criteria are empty or name no attribute of User, where the call
\* raises before any row is looked at
MatchingRows(rs, kwargs) ==
    IF DOMAIN kwargs = {} \/ ~(DOMAIN kwargs \subseteq Columns \cup OtherAttributes)
    THEN {}
    ELSE Matching(rs, kwargs)

\* C6: find_user_by returns the first row in insertion order that matches
\* whenever a row matches, raises NoResultFound only when none does, and
\* raises InvalidRequestError only for empty criteria or criteria that name
\* an unknown field, one that is no column of User.
C6_FindFirstMatch ==
    [][result'.op = "find_user_by"
       => LET kwargs == Criteria[result'.a1]
              found == MatchingRows(Table, kwargs)
          IN  /\ found # {}
                    => /\ result'.exc = NoExc
                       /\ \E i \in found :
                             /\ \A j \in found : i <= j
                             /\ result'.ret_user = Table[i]
              /\ result'.exc = "NoResultFound" => found = {}
              /\ result'.exc = "InvalidRequestError"
                    => \/ DOMAIN kwargs = {}
                       \/ ~(DOMAIN kwargs \subseteq Columns)]_vars

(* ------------------- claims on interleaved registration --------------- *)

\* the register_user calls that returned a user for email e
Registered(e) ==
    {p \in 1..NumProcs : /\ calls[p].pc = "returned"
                         /\ calls[p].exc = NoExc
                         /\ calls[p].email = e}

\* the register_user calls for email e that are past their session.add and
\* have not failed: waiting to commit, or returned with a user
Added(e) ==
    {p \in 1..NumProcs : /\ calls[p].email = e
                         /\ \/ calls[p].pc = "added"
                            \/ calls[p].pc = "returned" /\ calls[p].exc = NoExc}

WithSession(rs, sid) == {i \in 1..Len(rs) : rs[i].session_id = sid}

\* C11: get_user_from_session_id(None) returns None without a store lookup,
\* also when rows have a null session_id; for a session id no row holds it
\* returns None; otherwise it returns the row that holds it.
C11_GetUserFromSessionId ==
    result.op = "get_user_from_session_id"
        => /\ result.exc = NoExc
           /\ IF result.a1 = None
              THEN /\ result.ret_user = NoUser
                   /\ ~get_user_from_session_id(rows, result.a1).lookup
              ELSE IF WithSession(Table, result.a1) = {}
              THEN result.ret_user = NoUser
              ELSE \E i \in WithSession(Table, result.a1) :
                      /\ result.ret_user = Table[i]
                      /\ WithSession(Table, result.a1) = {i}

\* C12: destroy_session for an existing user returns normally, sets that
\* row's session_id to None and nothing else, and a second call leaves the
\* store as the first left it.
C12_DestroySessionIdempotent ==
    [][(result'.op = "destroy_session" /\ result'.a1 \in 1..Len(Table))
       => LET again == destroy_session(rows', result'.a1)
          IN  /\ result'.exc = NoExc
              /\ rows' = [rows EXCEPT ![result'.a1].session_id = None]
              /\ committed' = rows'
              /\ again.exc = NoExc
              /\ again.rows = rows']_vars

\* C13: get_reset_password_token for a known email stores a fresh token in
\* place of any earlier one, which update_password then refuses; for an
\* unknown email it raises ValueError and changes no row.
C13_OneResetTokenPerUser ==
    [][result'.op = "get_reset_password_token"
       => IF WithEmail(Table, result'.a1) = {}
          THEN /\ result'.exc = "ValueError"
               /\ rows' = rows
               /\ committed' = committed
          ELSE LET before == find_user_by(rows, [email |-> result'.a1]).ret
               IN  /\ result'.exc = NoExc
                   /\ result'.ret # None
                   /\ rows' = [rows EXCEPT ![before.id].reset_token = result'.ret]
                   /\ before.reset_token # None
                        => \A p \in Passwords, s \in Salts :
                              LET u == update_password(rows', before.reset_token, p, s)
                              IN  u.exc = "ValueError" /\ u.rows = rows']_vars


\* the outputs of the hasher over the passwords a caller can supply
Hashes == {_hash_password(p, s) : p \in Passwords, s \in Salts}

\* C16: every stored hashed_password is an output of the hasher, never a
\* plaintext password; a hashed_password is written only by register_user
\* and update_password, as the hash of the password given in that call; the
\* other columns are written from the email argument, a generated
\* identifier or None.
C16_OnlyHashesStored ==
    /\ [](\A i \in 1..Len(Table) :
             /\ Table[i].hashed_password \in Hashes
             /\ Table[i].hashed_password \notin Passwords)
    /\ [][\A i \in 1..Len(Table') :
             IF i > Len(Table)
             THEN /\ result'.op = "register_user"
                  /\ Table'[i].email = result'.a1
                  /\ \E s \in Salts :
                        Table'[i].hashed_password = hashpw(result'.a2, s)
                  /\ Table'[i].session_id = None
                  /\ Table'[i].reset_token = None
             ELSE /\ Table'[i].email = Table[i].email
                  /\ Table'[i].hashed_password # Table[i].hashed_password
                       => /\ result'.op = "update_password"
                          /\ \E s \in Salts :
                                Table'[i].hashed_password = hashpw(result'.a2, s)
                  /\ Table'[i].session_id \in
                        {Table[i].session_id, None, nextUuid}
                  /\ Table'[i].reset_token \in
                        {Table[i].reset_token, None, nextUuid}]_vars

\* C16 witness: a password reset has replaced the hash stored at
\* registration by the hash of another password
C16_Witness ==
    /\ result.op = "update_password"
    /\ result.exc = NoExc
    /\ result.a1 # None
    /\ \E i \in 1..Len(Table) :
          /\ Table[i].hashed_password # result.was
          /\ checkpw(result.a2, Table[i].hashed_password)
          /\ ~checkpw(result.a2, result.was)

\* C20: no two distinct users hold the same non-null session_id, and no two
\* distinct users hold the same non-null reset_token.
C20_IdentifiersIdentifyOneUser ==
    \A i, j \in 1..Len(Table) :
        i # j => /\ Table[i].session_id # None
                      => Table[i].session_id # Table[j].session_id
                 /\ Table[i].reset_token # None
                      => Table[i].reset_token # Table[j].reset_token

\* C20 witness: two users hold a session at the same time
C20_Witness ==
    \E i, j \in 1..Len(Table) :
        /\ i # j
        /\ Table[i].session_id # None
        /\ Table[j].session_id # None


(* ------------------------- claims on the routes ----------------------- *)

\* C14: DELETE /sessions with a cookie that is a user's current session_id
\* answers 302 and sets that user's session_id to None, after which GET
\* /profile and DELETE /sessions with that cookie answer 403; an issued
\* session id that is no user's current one never becomes current again;
\* DELETE /sessions and GET /profile with a missing or unknown cookie
\* answer 403 and change no row.
C14_LogoutEndsSession ==
    [][/\ response'.route = "DELETE /sessions"
          => IF response'.a1 # None /\ WithSession(Table, response'.a1) # {}
             THEN /\ response'.status = 302
                  /\ \E i \in WithSession(Table, response'.a1) :
                        rows' = [rows EXCEPT ![i].session_id = None]
                  /\ committed' = rows'
                  /\ profile(rows', response'.a1).status = 403
                  /\ logout(rows', response'.a1).status = 403
                  /\ logout(rows', response'.a1).rows = rows'
             ELSE /\ response'.status = 403
                  /\ rows' = rows
                  /\ committed' = committed
       /\ response'.route = "GET /profile"
          => /\ rows' = rows
             /\ committed' = committed
             /\ (response'.a1 = None \/ WithSession(Table, response'.a1) = {})
                   => response'.status = 403
       /\ \A c \in 1..(nextUuid - 1) :
             WithSession(Table, c) = {} => WithSession(Table', c) = {}]_vars

\* the credentials are valid in rs: a user has the email and the password
\* verifies against the stored hash
ValidCredentials(rs, email, password) ==
    /\ password # None
    /\ \E i \in WithEmail(rs, email) : checkpw(password, rs[i].hashed_password)

\* C15: POST /sessions answers 401 and changes no row when the credentials
\* are not valid; when they are valid it answers 200 with a non-null cookie
\* that is stored as the user's session_id, and GET /profile with it gives
\* the user's email; a stored session_id stays until that user logs in
\* again or logs out with it.
C15_LoginIssuesSession ==
    [][/\ response'.route = "POST /sessions"
          => IF ValidCredentials(Table, response'.a1, response'.a2)
             THEN /\ response'.status = 200
                  /\ response'.cookie # None
                  /\ \E i \in WithEmail(Table, response'.a1) :
                        rows' = [rows EXCEPT ![i].session_id = response'.cookie]
                  /\ profile(rows', response'.cookie).status = 200
                  /\ profile(rows', response'.cookie).email = response'.a1
             ELSE /\ response'.status = 401
                  /\ rows' = rows
       /\ \A i \in 1..Len(Table) :
             (/\ Table[i].session_id # None
              /\ ~(/\ response'.route = "POST /sessions"
                   /\ response'.a1 = Table[i].email)
              /\ ~(/\ response'.route = "DELETE /sessions"
                   /\ response'.a1 = Table[i].session_id))
             => /\ Table'[i].session_id = Table[i].session_id
                /\ profile(rows', Table[i].session_id).email = Table[i].email]_vars

\* C19: a PUT /reset_password answered 200 changes the hashed_password and
\* the reset_token of the one row holding the token and nothing else, and
\* the email field of the request has no influence on the rows.
C19_ResetChangesOnlyPasswordAndToken ==
    [][(response'.route = "PUT /reset_password" /\ response'.status = 200)
       => /\ \E i \in 1..Len(Table) :
                /\ {j \in 1..Len(Table) :
                       Table[j].reset_token = response'.a2} = {i}
                /\ \E s \in HttpSalts :
                      rows' = [rows EXCEPT
                                 ![i].hashed_password = hashpw(response'.a3, s),
                                 ![i].reset_token = None]
          /\ \A e \in EmailInputs : \E s \in HttpSalts :
                put_reset_password(rows, e, response'.a2,
                                   response'.a3, s).rows = rows']_vars

\* C19 witness: a reset went through for a logged-in user while the request
\* named another email, and the session is still there
C19_Witness ==
    /\ response.route = "PUT /reset_password"
    /\ response.status = 200
    /\ response.a2 # None
    /\ \E i \in 1..Len(Table) :
          /\ checkpw(response.a3, Table[i].hashed_password)
          /\ Table[i].email # response.a1
          /\ Table[i].session_id # None
          /\ Table[i].reset_token = None


(* ------------------------ claims on filter_datum ---------------------- *)

\* the entries with the value of every entry whose key is in fields
\* replaced by redaction
Redacted(entries, fields, redaction) ==
    [n \in 1..Len(entries) |->
        IF \E k \in 1..Len(fields) : fields[k] = entries[n][1]
        THEN <<entries[n][1], redaction>>
        ELSE entries[n]]

\* C17: for a message made of key=value<separator> entries, filter_datum
\* returns the message in which every entry whose key is in fields has its
\* value replaced by redaction, key and separator kept, and every other
\* entry is unchanged, whatever the other keys and values are.
C17_FilterDatumRedactsListedKeys ==
    datum.called
        => datum.out = Join(Redacted(datum.entries, datum.fields,
                                     datum.redaction),
                            datum.separator, Len(datum.entries))

\* the orderings of the field list fs
Orderings(fs) ==
    {g \in [1..Len(fs) -> {fs[k] : k \in 1..Len(fs)}] :
        \A k \in 1..Len(fs) : \E m \in 1..Len(fs) : g[m] = fs[k]}

\* C18: filter_datum returns the same string for every ordering of the same
\* fields, for every message, redaction and separator.
C18_FilterDatumOrderIndependent ==
    datum.called
        => \A g \in Orderings(datum.fields) :
              filter_datum(g, datum.redaction, datum.message,
                           datum.separator) = datum.out

====
